---- MODULE Spec2Model ----
(***************************************************************************)
(* Model of the OmniAuthor Rust text engine (rust-engine/src/lib.rs):      *)
(* TextProcessor::analyze_text, optimize_text, resolve_conflicts and the   *)
(* private count_syllables.                                                *)
(*                                                                         *)
(* A Rust string is modelled as a sequence of characters; a character is a *)
(* one-character TLA+ string, except the characters TLA+ cannot write,     *)
(* which are named by their code point: the letter e-acute is "U+00E9",    *)
(* the no-break space "U+00A0".  str::len and the offsets of a regex match *)
(* count bytes of the UTF-8 encoding, so they are computed with Utf8Len.   *)
(* An f64 is modelled as <<"fin", n, d>> (the rational n/d in lowest       *)
(* terms), <<"inf", sign, 1>> or <<"nan", 0, 1>>; rounding is not modelled.*)
(***************************************************************************)
EXTENDS Integers, Sequences, FiniteSets, TLC

VARIABLES text, word, conflicts, called, analysis, suggestions, resolved, syllables

vars == <<text, word, conflicts, called, analysis, suggestions, resolved, syllables>>

(***************************************************************************)
(* Bounds of the inputs.                                                   *)
(***************************************************************************)
MaxPieces == 3

MaxFragments == 2

MaxConflicts == 3

MaxChangeLen == 2

MaxWordLen == 4

(***************************************************************************)
(* Characters.                                                             *)
(***************************************************************************)
EAcute == "U+00E9"

LowerLetters ==
  <<"a","b","c","d","e","f","g","h","i","j","k","l","m",
    "n","o","p","q","r","s","t","u","v","w","x","y","z">>

UpperLetters ==
  <<"A","B","C","D","E","F","G","H","I","J","K","L","M",
    "N","O","P","Q","R","S","T","U","V","W","X","Y","Z">>

Digits == {"0","1","2","3","4","5","6","7","8","9"}

Range(s) == {s[i] : i \in 1..Len(s)}

\* \w of the regex crate (Unicode word characters), on the model's characters
IsWordChar(c) == c \in Range(LowerLetters) \cup Range(UpperLetters) \cup Digits \cup {"_", EAcute}

\* the White_Space characters of one byte: U+0009..U+000D and the space
AsciiSpaces == {" ", "\t", "\n", "U+000B", "\f", "\r"}

\* the White_Space characters of two bytes: next line and no-break space
TwoByteSpaces == {"U+0085", "U+00A0"}

\* the White_Space characters of three bytes
ThreeByteSpaces ==
  {"U+1680", "U+2000", "U+2001", "U+2002", "U+2003", "U+2004", "U+2005", "U+2006",
   "U+2007", "U+2008", "U+2009", "U+200A", "U+2028", "U+2029", "U+202F", "U+205F",
   "U+3000"}

\* \s of the regex crate and the White_Space that str::trim removes
IsSpace(c) == c \in AsciiSpaces \cup TwoByteSpaces \cup ThreeByteSpaces

\* number of bytes of the character's UTF-8 encoding
Utf8Len(c) ==
  IF c \in ThreeByteSpaces THEN 3
  ELSE IF c \in TwoByteSpaces \cup {EAcute} THEN 2
  ELSE 1

\* str::len: the length in bytes
ByteLen(s) ==
  LET f[i \in 0..Len(s)] == IF i = 0 THEN 0 ELSE f[i-1] + Utf8Len(s[i])
  IN f[Len(s)]

\* byte offset (0-based) of the character at index i (1-based; Len(s)+1 is the end)
ByteOffset(s, i) == ByteLen(SubSeq(s, 1, i-1))

\* char::to_lowercase on the model's characters
ToLower(c) ==
  IF \E i \in 1..26 : UpperLetters[i] = c
  THEN LowerLetters[CHOOSE i \in 1..26 : UpperLetters[i] = c]
  ELSE c

\* str::to_lowercase
to_lowercase(s) == [i \in 1..Len(s) |-> ToLower(s[i])]

\* str::trim().is_empty()
TrimIsEmpty(s) == \A i \in 1..Len(s) : IsSpace(s[i])

HasAt(t, s, lit) ==
  /\ s + Len(lit) - 1 <= Len(t)
  /\ \A i \in 1..Len(lit) : t[s + i - 1] = lit[i]

\* \b before index s (s = Len(t)+1: at the end of the text)
IsBoundary(t, s) ==
  LET before == s > 1 /\ IsWordChar(t[s-1])
      after  == s <= Len(t) /\ IsWordChar(t[s])
  IN before # after

\* index after the maximal run of word characters starting at s
WordRunEnd(t, s) ==
  CHOOSE e \in s..Len(t)+1 :
    /\ \A k \in s..e-1 : IsWordChar(t[k])
    /\ e = Len(t)+1 \/ ~IsWordChar(t[e])

\* index after the maximal run of whitespace starting at s
SpaceRunEnd(t, s) ==
  CHOOSE e \in s..Len(t)+1 :
    /\ \A k \in s..e-1 : IsSpace(t[k])
    /\ e = Len(t)+1 \/ ~IsSpace(t[e])

(***************************************************************************)
(* The compiled patterns of TextProcessor::new.  Each is given by its      *)
(* match at a start index s: the index after the match, or 0 for no match. *)
(***************************************************************************)
\* \b\w+\b
word_patterns(t, s) ==
  IF IsWordChar(t[s]) /\ IsBoundary(t, s)
  THEN LET e == WordRunEnd(t, s) IN IF IsBoundary(t, e) THEN e ELSE 0
  ELSE 0

Terminators == {".", "!", "?"}

\* [.!?]+
sentence_patterns(t, s) ==
  IF t[s] \in Terminators
  THEN CHOOSE e \in s+1..Len(t)+1 :
         /\ \A k \in s..e-1 : t[k] \in Terminators
         /\ e = Len(t)+1 \/ t[e] \notin Terminators
  ELSE 0

\* \n\s*\n : \s* is greedy, so the match ends at the last newline of the
\* whitespace run that follows the first newline
paragraph_patterns(t, s) ==
  IF t[s] = "\n"
  THEN LET w == SpaceRunEnd(t, s+1)
           last == {k \in s+1..w-1 : t[k] = "\n"}
       IN IF last = {} THEN 0
          ELSE (CHOOSE k \in last : \A j \in last : j <= k) + 1
  ELSE 0

Auxiliaries == << <<"w","a","s">>, <<"w","e","r","e">>, <<"b","e","e","n">>, <<"b","e","i","n","g">> >>

\* \s+\w+ed\b from index p
PassiveTail(t, p) ==
  LET q == SpaceRunEnd(t, p)
      e == WordRunEnd(t, q)
  IN IF q > p /\ e - q >= 3 /\ t[e-2] = "e" /\ t[e-1] = "d" THEN e ELSE 0

\* \b(was|were|been|being)\s+\w+ed\b : the alternatives are tried in order
passive_voice_patterns(t, s) ==
  IF IsBoundary(t, s)
  THEN LET ok == {i \in 1..Len(Auxiliaries) :
                    HasAt(t, s, Auxiliaries[i]) /\ PassiveTail(t, s + Len(Auxiliaries[i])) > 0}
       IN IF ok = {} THEN 0
          ELSE PassiveTail(t, s + Len(Auxiliaries[CHOOSE i \in ok : \A j \in ok : i <= j]))
  ELSE 0

\* \b\w+ly\b
adverb_patterns(t, s) ==
  IF IsWordChar(t[s]) /\ IsBoundary(t, s)
  THEN LET e == WordRunEnd(t, s)
       IN IF e - s >= 3 /\ t[e-2] = "l" /\ t[e-1] = "y" THEN e ELSE 0
  ELSE 0

\* "[^"]*"
dialogue_patterns(t, s) ==
  IF t[s] = "\""
  THEN LET close == {k \in s+1..Len(t) : t[k] = "\""}
       IN IF close = {} THEN 0
          ELSE (CHOOSE k \in close : \A j \in close : k <= j) + 1
  ELSE 0

\* the '.' of text.split('.')
DotPattern(t, s) == IF t[s] = "." THEN s + 1 ELSE 0

\* the match of the named pattern at index s
MatchAt(p, t, s) ==
  CASE p = "word_patterns" -> word_patterns(t, s)
    [] p = "sentence_patterns" -> sentence_patterns(t, s)
    [] p = "paragraph_patterns" -> paragraph_patterns(t, s)
    [] p = "passive_voice_patterns" -> passive_voice_patterns(t, s)
    [] p = "adverb_patterns" -> adverb_patterns(t, s)
    [] p = "dialogue_patterns" -> dialogue_patterns(t, s)
    [] p = "." -> DotPattern(t, s)

\* one step of the iterator at pos, e being the pattern's match there: the match
\* and the search from its end, or the search from the next position
FindStep(f, pos, e) == IF e > 0 THEN << <<pos, e>> >> \o f[e] ELSE f[pos+1]

\* Regex::find_iter: the successive leftmost non-overlapping matches, each
\* <<start, end>> in character indices (end exclusive)
find_iter(p, t) ==
  LET f[pos \in 1..Len(t)+1] ==
        IF pos > Len(t) THEN <<>> ELSE FindStep(f, pos, MatchAt(p, t, pos))
  IN f[1]

\* the pieces of the text between the matches ms, the last one included
Between(t, ms) ==
  [i \in 1..Len(ms)+1 |->
     SubSeq(t, IF i = 1 THEN 1 ELSE ms[i-1][2],
               IF i <= Len(ms) THEN ms[i][1] - 1 ELSE Len(t))]

\* split
split(p, t) == Between(t, find_iter(p, t))

\* mutant: the fragment is tested without trimming it
NotBlank_NoTrim(s) == Len(s) > 0

NotBlank(s) == ~TrimIsEmpty(s)

\* the substrings of the matches ms: m.as_str()
AsStrings(t, ms) == [i \in 1..Len(ms) |-> SubSeq(t, ms[i][1], ms[i][2] - 1)]

\* find_iter(text).map(|m| m.as_str())
MatchedStrings(p, t) == AsStrings(t, find_iter(p, t))

(***************************************************************************)
(* count_syllables                                                         *)
(***************************************************************************)
Vowels == {"a","e","i","o","u","y","A","E","I","O","U","Y"}

Max(a, b) == IF a >= b THEN a ELSE b

\* the loop over word.chars(): <<syllable_count, prev_was_vowel>> after i characters
SyllableScan(w) ==
  LET f[i \in 0..Len(w)] ==
        IF i = 0 THEN <<0, FALSE>>
        ELSE LET is_vowel == w[i] \in Vowels
             IN <<IF is_vowel /\ ~f[i-1][2] THEN f[i-1][1] + 1 ELSE f[i-1][1], is_vowel>>
  IN f[Len(w)][1]

ends_with_e(w) == Len(w) > 0 /\ w[Len(w)] = "e"

\* mutant: the result is not clamped to 1
count_syllables_NoClamp(w) ==
  LET syllable_count == SyllableScan(w)
  IN IF ends_with_e(w) /\ syllable_count > 1 THEN syllable_count - 1 ELSE syllable_count

count_syllables(w) ==
  LET syllable_count == SyllableScan(w)
      silent == IF ends_with_e(w) /\ syllable_count > 1 THEN syllable_count - 1 ELSE syllable_count
  IN Max(silent, 1)

\* calculate_avg_syllables is defined after the f64 model below

(***************************************************************************)
(* f64                                                                     *)
(***************************************************************************)
Abs(x) == IF x < 0 THEN -x ELSE x

Sign(x) == IF x < 0 THEN -1 ELSE IF x > 0 THEN 1 ELSE 0

RECURSIVE GCD(_, _)
GCD(a, b) == IF b = 0 THEN a ELSE GCD(b, a % b)

NaN == <<"nan", 0, 1>>

Inf(sign) == <<"inf", sign, 1>>

\* the rational n/d (d # 0) in lowest terms with a positive denominator
Fin(n, d) ==
  LET g == GCD(Abs(n), Abs(d))
  IN <<"fin", Sign(d) * (n \div g), Abs(d) \div g>>

\* `x as f64` of a usize
AsF64(n) == Fin(n, 1)

IsNaN(x) == x[1] = "nan"

IsZero(x) == x[1] = "fin" /\ x[2] = 0

FMul(x, y) ==
  IF IsNaN(x) \/ IsNaN(y) THEN NaN
  ELSE IF x[1] = "inf" \/ y[1] = "inf"
       THEN IF IsZero(x) \/ IsZero(y) THEN NaN ELSE Inf(Sign(x[2]) * Sign(y[2]))
       ELSE Fin(x[2] * y[2], x[3] * y[3])

FAdd(x, y) ==
  IF IsNaN(x) \/ IsNaN(y) THEN NaN
  ELSE IF x[1] = "inf" /\ y[1] = "inf"
       THEN IF x[2] = y[2] THEN x ELSE NaN
       ELSE IF x[1] = "inf" THEN x
       ELSE IF y[1] = "inf" THEN y
       ELSE Fin(x[2] * y[3] + y[2] * x[3], x[3] * y[3])

FNeg(x) == IF IsNaN(x) THEN NaN ELSE <<x[1], -x[2], x[3]>>

FSub(x, y) == FAdd(x, FNeg(y))

\* IEEE 754 division: 0/0 is NaN, x/0 is an infinity
FDiv(x, y) ==
  IF IsNaN(x) \/ IsNaN(y) THEN NaN
  ELSE IF x[1] = "inf"
       THEN IF y[1] = "inf" THEN NaN ELSE Inf(x[2] * (IF y[2] < 0 THEN -1 ELSE 1))
       ELSE IF y[1] = "inf" THEN Fin(0, 1)
       ELSE IF y[2] = 0
            THEN IF x[2] = 0 THEN NaN ELSE Inf(Sign(x[2]))
            ELSE Fin(x[2] * y[3], x[3] * y[2])

SumSeq(s) ==
  LET f[i \in 0..Len(s)] == IF i = 0 THEN 0 ELSE f[i-1] + s[i]
  IN f[Len(s)]

calculate_avg_syllables(words) ==
  IF Len(words) = 0 THEN Fin(0, 1)
  ELSE LET total_syllables == SumSeq([i \in 1..Len(words) |-> count_syllables(words[i])])
       IN FDiv(AsF64(total_syllables), AsF64(Len(words)))

(***************************************************************************)
(* perform_analysis (analyze_text).  content_hash, the base64 of the       *)
(* SHA-256 of the text, is left out of the result: no property here reads  *)
(* it.                                                                     *)
(***************************************************************************)
FleschBase == Fin(206835, 1000)

FleschSentenceWeight == Fin(1015, 1000)

FleschSyllableWeight == Fin(846, 10)

FogWeight == Fin(4, 10)

ComplexSyllables == 3

IsComplex(w) == count_syllables(w) >= ComplexSyllables

\* the body of perform_analysis after the three tokenisations (from line 128 on)
AnalysisOf(t, words, sentences, paragraphs) ==
  LET word_count == Len(words)
      sentence_count == Len(sentences)
      paragraph_count == Len(paragraphs)
      avg_words_per_sentence ==
        IF sentence_count > 0 THEN FDiv(AsF64(word_count), AsF64(sentence_count)) ELSE Fin(0, 1)
      avg_syllables_per_word == calculate_avg_syllables(words)
      unique_words == {to_lowercase(words[i]) : i \in 1..Len(words)}
      unique_word_ratio ==
        IF word_count > 0 THEN FDiv(AsF64(Cardinality(unique_words)), AsF64(word_count)) ELSE Fin(0, 1)
      flesch_reading_ease ==
        FSub(FSub(FleschBase, FMul(FleschSentenceWeight, avg_words_per_sentence)),
             FMul(FleschSyllableWeight, avg_syllables_per_word))
      complex_words == Len(SelectSeq(words, IsComplex))
      fog_index ==
        FMul(FogWeight,
             FAdd(avg_words_per_sentence,
                  FMul(AsF64(100), FDiv(AsF64(complex_words), AsF64(word_count)))))
      passive_voice_matches == Len(find_iter("passive_voice_patterns", t))
      passive_voice_ratio ==
        IF sentence_count > 0 THEN FDiv(AsF64(passive_voice_matches), AsF64(sentence_count)) ELSE Fin(0, 1)
      adverb_matches == Len(find_iter("adverb_patterns", t))
      adverb_ratio ==
        IF word_count > 0 THEN FDiv(AsF64(adverb_matches), AsF64(word_count)) ELSE Fin(0, 1)
      dialogue_matches == Len(find_iter("dialogue_patterns", t))
      dialogue_ratio ==
        IF paragraph_count > 0 THEN FDiv(AsF64(dialogue_matches), AsF64(paragraph_count)) ELSE Fin(0, 1)
  IN [ word_count |-> word_count,
       character_count |-> Len(t),
       paragraph_count |-> paragraph_count,
       sentence_count |-> sentence_count,
       readability_score |-> flesch_reading_ease,
       complexity_metrics |->
         [ avg_words_per_sentence |-> avg_words_per_sentence,
           avg_syllables_per_word |-> avg_syllables_per_word,
           fog_index |-> fog_index,
           flesch_reading_ease |-> flesch_reading_ease,
           unique_word_ratio |-> unique_word_ratio ],
       style_metrics |->
         [ passive_voice_ratio |-> passive_voice_ratio,
           adverb_ratio |-> adverb_ratio,
           dialogue_ratio |-> dialogue_ratio,
           action_ratio |-> Fin(0, 1),
           description_ratio |-> Fin(0, 1) ] ]

perform_analysis(t) ==
  AnalysisOf(t, MatchedStrings("word_patterns", t),
             SelectSeq(split("sentence_patterns", t), NotBlank),
             SelectSeq(split("paragraph_patterns", t), NotBlank))

(***************************************************************************)
(* generate_optimization_suggestions (optimize_text)                       *)
(***************************************************************************)
LongSentenceWords == 25

ApproxSentenceWidth == 50

\* mutant: a fragment of exactly 25 words is reported too
IsLongSentence_AtLeast(sentence) == Len(find_iter("word_patterns", sentence)) >= LongSentenceWords

\* whether a fragment of text.split('.') is reported as too long
IsLongSentence(sentence) == Len(find_iter("word_patterns", sentence)) > LongSentenceWords

\* the suggestion pushed for the fragment at index i (0-based, as enumerate() counts)
SentenceLengthSuggestion(i) ==
  [ suggestion_type |-> "sentence_length",
    priority |-> "medium",
    message |-> "Consider breaking this long sentence into shorter ones for better readability.",
    start_pos |-> i * ApproxSentenceWidth,
    end_pos |-> (i + 1) * ApproxSentenceWidth,
    suggested_replacement |-> "None" ]

\* the first loop, over the fragments of text.split('.').enumerate()
LongSentenceLoop(fragments) ==
  LET f[i \in 0..Len(fragments)] ==
        IF i = 0 THEN <<>>
        ELSE IF IsLongSentence(fragments[i])
             THEN Append(f[i-1], SentenceLengthSuggestion(i - 1))
             ELSE f[i-1]
  IN f[Len(fragments)]

LongSentenceSuggestions(t) == LongSentenceLoop(split(".", t))

\* mutant: the offsets count characters, not bytes
MatchSuggestion_CharOffsets(t, m, type, message) ==
  [ suggestion_type |-> type,
    priority |-> "low",
    message |-> message,
    start_pos |-> m[1] - 1,
    end_pos |-> m[2] - 1,
    suggested_replacement |-> "None" ]

\* the suggestion pushed for one regex match: mat.start() and mat.end() are byte offsets
MatchSuggestion(t, m, type, message) ==
  [ suggestion_type |-> type,
    priority |-> "low",
    message |-> message,
    start_pos |-> ByteOffset(t, m[1]),
    end_pos |-> ByteOffset(t, m[2]),
    suggested_replacement |-> "None" ]

\* a loop over the matches ms of a pattern: one suggestion for each
MatchLoop(t, ms, type, message) ==
  [i \in 1..Len(ms) |-> MatchSuggestion(t, ms[i], type, message)]

\* the second loop
PassiveVoiceSuggestions(t) ==
  MatchLoop(t, find_iter("passive_voice_patterns", t), "passive_voice",
            "Consider using active voice for more engaging writing.")

\* the third loop
AdverbSuggestions(t) ==
  MatchLoop(t, find_iter("adverb_patterns", t), "adverb_usage",
            "Consider using stronger verbs instead of adverbs.")

\* mutant: the adverb scan runs before the passive-voice scan
generate_optimization_suggestions_AdverbsFirst(t) ==
  LongSentenceSuggestions(t) \o AdverbSuggestions(t) \o PassiveVoiceSuggestions(t)

generate_optimization_suggestions(t) ==
  LongSentenceSuggestions(t) \o PassiveVoiceSuggestions(t) \o AdverbSuggestions(t)

(***************************************************************************)
(* auto_resolve_conflicts (resolve_conflicts)                              *)
(***************************************************************************)
ManualResolution ==
  <<"M","a","n","u","a","l"," ","r","e","s","o","l","u","t","i","o","n"," ",
    "r","e","q","u","i","r","e","d">>

\* mutant: the two insertions are joined without the space
InsertionResolution_NoSpace(a, b) == a \o b

\* format!("{} {}", user_a_change, user_b_change)
InsertionResolution(a, b) == a \o <<" ">> \o b

\* mutant: equal lengths keep user_a_change
DeletionResolution_TiesToA(a, b) == IF ByteLen(a) <= ByteLen(b) THEN a ELSE b

\* if a.len() < b.len() { a } else { b }
DeletionResolution(a, b) == IF ByteLen(a) < ByteLen(b) THEN a ELSE b

\* the match on conflict_type
ResolutionFor(c) ==
  CASE c.conflict_type = "text_insertion" -> InsertionResolution(c.user_a_change, c.user_b_change)
    [] c.conflict_type = "text_deletion" -> DeletionResolution(c.user_a_change, c.user_b_change)
    [] c.conflict_type = "text_modification" -> c.user_b_change
    [] OTHER -> ManualResolution

\* mutant: each resolved conflict is put at the front of the result
auto_resolve_conflicts_Reversed(cs) ==
  LET f[i \in 0..Len(cs)] ==
        IF i = 0 THEN <<>>
        ELSE <<[cs[i] EXCEPT !.resolution_suggestion = ResolutionFor(cs[i])]>> \o f[i-1]
  IN f[Len(cs)]

\* the loop: each conflict gets its resolution_suggestion and is pushed
auto_resolve_conflicts(cs) ==
  LET f[i \in 0..Len(cs)] ==
        IF i = 0 THEN <<>>
        ELSE Append(f[i-1], [cs[i] EXCEPT !.resolution_suggestion = ResolutionFor(cs[i])])
  IN f[Len(cs)]

(***************************************************************************)
(* Inputs.                                                                 *)
(***************************************************************************)
\* short texts: every concatenation of at most MaxPieces of these pieces
Pieces ==
  << <<"w","a","s"," ">>, <<"t","e","d">>, <<"l","y">>, <<EAcute," ">>, <<".">>, <<"!">>,
     <<" ">>, <<"\n">>, <<"\f">>, <<"U+00A0">>, <<"\"">>, <<"A">>, <<"a">> >>

Concat(ss) ==
  LET f[i \in 0..Len(ss)] == IF i = 0 THEN <<>> ELSE f[i-1] \o ss[i]
  IN f[Len(ss)]

ShortTexts ==
  UNION {{Concat([i \in 1..n |-> Pieces[ps[i]]]) : ps \in [1..n -> 1..Len(Pieces)]} : n \in 0..MaxPieces}

ExampleTexts ==
  { <<"T","h","e"," ","b","a","l","l"," ","w","a","s"," ","t","h","r","o","w","n">>,
    <<"T","h","e"," ","b","a","l","l"," ","w","a","s"," ","k","i","c","k","e","d">>,
    <<"T","h","i","s"," ","i","s"," ","a"," ","t","e","s","t","."," ","T","h","i","s"," ","i","s"," ","a","n","o","t","h","e","r"," ","t","e","s","t","!">>,
    <<"I","s"," ","i","t","?"," ","Y","e","s","!">>,
    <<EAcute,"t",EAcute," ","w","a","s"," ","b","e","i","n","g"," ","e","n","d","e","d"," ","q","u","i","c","k","l","y",".">> }

\* n times the word "a" followed by a space
Filler(n) == [i \in 1..2*n |-> IF i % 2 = 1 THEN "a" ELSE " "]

FragmentTails ==
  { <<>>, <<"w","a","s"," ","t","e","d"," ">>, <<"t","e","d","l","y"," ">>,
    <<"w","a","s"," ","t","e","d"," ","t","e","d","l","y"," ">> }

\* fragments of 0, 25 or 26 filler words, then a passive phrase, an adverb, both or neither
LongFragments ==
  {Filler(n) \o tail : n \in {0, LongSentenceWords, LongSentenceWords + 1}, tail \in FragmentTails}

Separators == { <<".">>, <<"!">> }

\* long texts: at most MaxFragments fragments, a separator after each but the last
LongTexts ==
  UNION {{Concat([i \in 1..2*n-1 |-> IF i % 2 = 1 THEN fs[(i+1) \div 2] ELSE ss[i \div 2]]) :
            fs \in [1..n -> LongFragments], ss \in [1..n-1 -> Separators]} : n \in 1..MaxFragments}

ChangeAlphabet == {"a", EAcute}

Strings(alphabet, n) == UNION {[1..k -> alphabet] : k \in 0..n}

ChangeStrings == Strings(ChangeAlphabet, MaxChangeLen)

ConflictTypes == {"text_insertion", "text_deletion", "text_modification", "unknown_type", "TEXT_DELETION"}

\* single conflicts: every type, every pair of changes, two timestamps, two incoming suggestions
SingleConflicts ==
  [ conflict_id : {"c1"}, conflict_type : ConflictTypes, start_pos : {0}, end_pos : {3},
    user_a_change : ChangeStrings, user_b_change : ChangeStrings,
    timestamp : {"t1", "t2"}, resolution_suggestion : {<<>>, <<"o","l","d">>} ]

\* conflicts for the lists: they differ in id, position and type
ListConflicts ==
  {[ conflict_id |-> id, conflict_type |-> ty,
     start_pos |-> IF id = "c1" THEN 0 ELSE 5, end_pos |-> IF id = "c1" THEN 3 ELSE 9,
     user_a_change |-> <<"a">>, user_b_change |-> <<EAcute>>,
     timestamp |-> "t1", resolution_suggestion |-> <<"o","l","d">> ] :
   id \in {"c1", "c2"},
   ty \in {"text_insertion", "text_deletion", "text_modification", "unknown_type"}}

ConflictLists ==
  {<<c>> : c \in SingleConflicts} \cup UNION {[1..n -> ListConflicts] : n \in 0..MaxConflicts}

WordAlphabet == {"a", "e", "y", "k", "A", "E", "K"}

ExampleWords ==
  { <<"c","a","k","e">>,
    <<"h","e","l","l","o">>,
    <<"a">>,
    <<"C","A","K","E">>,
    <<"q","u","e","u","e">> }

Words == Strings(WordAlphabet, MaxWordLen) \cup ExampleWords

(***************************************************************************)
(* The state machine: one call of one operation on the chosen inputs.      *)
(***************************************************************************)
\* the value the result variable holds before analyze_text has been called; it
\* is read only once called = "analyze_text"
NoAnalysis == perform_analysis(<<>>)

Idle ==
  /\ called = "none"
  /\ analysis = NoAnalysis
  /\ suggestions = <<>>
  /\ resolved = <<>>
  /\ syllables = 0

\* short and example texts
Init ==
  /\ text \in ShortTexts \cup ExampleTexts
  /\ word = <<>>
  /\ conflicts = <<>>
  /\ Idle

\* long texts
InitLong ==
  /\ text \in LongTexts
  /\ word = <<>>
  /\ conflicts = <<>>
  /\ Idle

\* conflict lists
InitConflicts ==
  /\ text = <<>>
  /\ word = <<>>
  /\ conflicts \in ConflictLists
  /\ Idle

\* words
InitWords ==
  /\ text = <<>>
  /\ word \in Words
  /\ conflicts = <<>>
  /\ Idle

AnalyzeText ==
  /\ called = "none"
  /\ called' = "analyze_text"
  /\ analysis' = perform_analysis(text)
  /\ UNCHANGED <<text, word, conflicts, suggestions, resolved, syllables>>

OptimizeText ==
  /\ called = "none"
  /\ called' = "optimize_text"
  /\ suggestions' = generate_optimization_suggestions(text)
  /\ UNCHANGED <<text, word, conflicts, analysis, resolved, syllables>>

ResolveConflicts ==
  /\ called = "none"
  /\ called' = "resolve_conflicts"
  /\ resolved' = auto_resolve_conflicts(conflicts)
  /\ UNCHANGED <<text, word, conflicts, analysis, suggestions, syllables>>

CountSyllables ==
  /\ called = "none"
  /\ called' = "count_syllables"
  /\ syllables' = count_syllables(word)
  /\ UNCHANGED <<text, word, conflicts, analysis, suggestions, resolved>>

Next == AnalyzeText \/ OptimizeText \/ ResolveConflicts \/ CountSyllables

Spec == Init /\ [][Next]_vars

SpecLong == InitLong /\ [][Next]_vars

SpecConflicts == InitConflicts /\ [][Next]_vars

SpecWords == InitWords /\ [][Next]_vars

(***************************************************************************)
(* Properties of resolve_conflicts.                                        *)
(***************************************************************************)
Resolving == called = "resolve_conflicts"

Deletions == {i \in 1..Len(conflicts) : conflicts[i].conflict_type = "text_deletion"}

\* C1 as stated: a text_deletion conflict gets the change with fewer characters,
\* and user_a_change when both have the same number of characters
C1_FewerCharactersTiesToA ==
  Resolving =>
    \A i \in Deletions :
      LET a == conflicts[i].user_a_change
          b == conflicts[i].user_b_change
      IN resolved[i].resolution_suggestion = (IF Len(a) <= Len(b) THEN a ELSE b)

\* C1 amended: a text_deletion conflict gets user_a_change when it is strictly
\* shorter than user_b_change in UTF-8 bytes, and user_b_change otherwise, so
\* equal lengths give user_b_change
C1_FewerBytesTiesToB ==
  Resolving =>
    \A i \in Deletions :
      LET a == conflicts[i].user_a_change
          b == conflicts[i].user_b_change
          r == resolved[i].resolution_suggestion
      IN /\ r \in {a, b}
         /\ ByteLen(r) <= ByteLen(a) /\ ByteLen(r) <= ByteLen(b)
         /\ ByteLen(a) = ByteLen(b) => r = b

\* a resolved text_deletion conflict whose two different changes are equally long
C1_Witness ==
  /\ Resolving
  /\ \E i \in Deletions :
       /\ conflicts[i].user_a_change # conflicts[i].user_b_change
       /\ ByteLen(conflicts[i].user_a_change) = ByteLen(conflicts[i].user_b_change)
       /\ resolved[i].resolution_suggestion = conflicts[i].user_b_change

\* C4: the result has the length and order of the input, and each record keeps
\* every field but resolution_suggestion; an empty list gives an empty list
C4_FramePreserved ==
  Resolving =>
    /\ Len(resolved) = Len(conflicts)
    /\ \A i \in 1..Len(conflicts) :
         /\ resolved[i].conflict_id = conflicts[i].conflict_id
         /\ resolved[i].conflict_type = conflicts[i].conflict_type
         /\ resolved[i].start_pos = conflicts[i].start_pos
         /\ resolved[i].end_pos = conflicts[i].end_pos
         /\ resolved[i].user_a_change = conflicts[i].user_a_change
         /\ resolved[i].user_b_change = conflicts[i].user_b_change
         /\ resolved[i].timestamp = conflicts[i].timestamp
    /\ conflicts = <<>> => resolved = <<>>

\* a resolved list of three conflicts whose first and last differ in id
C4_Witness ==
  /\ Resolving
  /\ Len(conflicts) = 3
  /\ conflicts[1].conflict_id # conflicts[3].conflict_id
  /\ resolved[1].resolution_suggestion # conflicts[1].resolution_suggestion

ManualLiteral ==
  <<"M","a","n","u","a","l"," ","r","e","s","o","l","u","t","i","o","n"," ",
    "r","e","q","u","i","r","e","d">>

\* C5: whatever the incoming suggestion and the timestamp, text_insertion gives
\* user_a_change, one space, user_b_change; text_modification gives user_b_change;
\* every type other than the three gives "Manual resolution required"
C5_PerTypeResolution ==
  Resolving =>
    \A i \in 1..Len(conflicts) :
      LET ty == conflicts[i].conflict_type
          a == conflicts[i].user_a_change
          b == conflicts[i].user_b_change
          r == resolved[i].resolution_suggestion
      IN /\ ty = "text_insertion" =>
              /\ Len(r) = Len(a) + 1 + Len(b)
              /\ SubSeq(r, 1, Len(a)) = a
              /\ r[Len(a) + 1] = " "
              /\ SubSeq(r, Len(a) + 2, Len(r)) = b
         /\ ty = "text_modification" => r = b
         /\ ty \notin {"text_insertion", "text_deletion", "text_modification"} => r = ManualLiteral

\* a resolved list with an insertion, a modification and an unknown type, each
\* of which came with another suggestion
C5_Witness ==
  /\ Resolving
  /\ \E i, j, k \in 1..Len(conflicts) :
       /\ conflicts[i].conflict_type = "text_insertion"
       /\ resolved[i].resolution_suggestion = <<"a", " ", EAcute>>
       /\ conflicts[j].conflict_type = "text_modification"
       /\ resolved[j].resolution_suggestion = <<EAcute>>
       /\ conflicts[k].conflict_type = "unknown_type"
       /\ resolved[k].resolution_suggestion = ManualLiteral
       /\ conflicts[i].resolution_suggestion = <<"o","l","d">>

(***************************************************************************)
(* Properties of count_syllables.                                          *)
(***************************************************************************)
Counted == called = "count_syllables"

LowerVowels == {"a", "e", "i", "o", "u", "y"}

\* a vowel in either case
IsVowelLetter(c) == ToLower(c) \in LowerVowels

\* the positions where a vowel starts the word or follows a non-vowel
VowelGroupStarts(w) ==
  {i \in 1..Len(w) : IsVowelLetter(w[i]) /\ (i = 1 \/ ~IsVowelLetter(w[i-1]))}

Cake == <<"c","a","k","e">>

Hello == <<"h","e","l","l","o">>

\* C6: for a non-empty word the estimate is max(1, g - d), g the number of vowel
\* group starts, d = 1 if the word ends in 'e' and g > 1; so it is at least 1,
\* and "cake" gives 1, "hello" 2, "a" 1
C6_SyllableFormula ==
  (Counted /\ word # <<>>) =>
    LET g == Cardinality(VowelGroupStarts(word))
        d == IF word[Len(word)] = "e" /\ g > 1 THEN 1 ELSE 0
    IN /\ syllables = (IF g - d >= 1 THEN g - d ELSE 1)
       /\ syllables >= 1
       /\ word = Cake => syllables = 1
       /\ word = Hello => syllables = 2
       /\ word = <<"a">> => syllables = 1

\* the estimate of "cake": two vowel groups, less the silent e
C6_Witness == Counted /\ word = Cake /\ syllables = 1

\* str::to_uppercase on the model's characters
to_uppercase(s) ==
  [i \in 1..Len(s) |->
     IF \E k \in 1..26 : LowerLetters[k] = s[i]
     THEN UpperLetters[CHOOSE k \in 1..26 : LowerLetters[k] = s[i]]
     ELSE s[i]]

\* C10: the estimate of a word is the estimate of the word in upper case
C10_CaseInsensitive ==
  Counted => syllables = count_syllables(to_uppercase(word))

(***************************************************************************)
(* Properties of analyze_text.                                             *)
(***************************************************************************)
Analyzed == called = "analyze_text"

Zero == Fin(0, 1)

\* C2: every ratio is exactly 0.0 when its denominator is 0 (fog_index too, whose
\* denominator is word_count), and the empty text has all counts 0, all ratios
\* 0.0 and flesch_reading_ease = 206.835
C2_RatiosZeroOnZeroDenominator ==
  Analyzed =>
    LET c == analysis.complexity_metrics
        st == analysis.style_metrics
    IN /\ analysis.sentence_count = 0 =>
            c.avg_words_per_sentence = Zero /\ st.passive_voice_ratio = Zero
       /\ analysis.word_count = 0 =>
            /\ c.avg_syllables_per_word = Zero
            /\ c.unique_word_ratio = Zero
            /\ st.adverb_ratio = Zero
            /\ c.fog_index = Zero
       /\ analysis.paragraph_count = 0 => st.dialogue_ratio = Zero
       /\ text = <<>> =>
            /\ analysis.word_count = 0 /\ analysis.sentence_count = 0
            /\ analysis.paragraph_count = 0 /\ analysis.character_count = 0
            /\ c.fog_index = Zero
            /\ c.flesch_reading_ease = Fin(206835, 1000)

IsTerminator(c) == c \in {".", "!", "?"}

\* the positions where a sentence starts: after a terminator or at the start of
\* the text, with a character that is not whitespace before the next terminator
SentenceStarts(t) ==
  {i \in 1..Len(t) :
     /\ ~IsTerminator(t[i])
     /\ i = 1 \/ IsTerminator(t[i-1])
     /\ \E k \in i..Len(t) : ~IsSpace(t[k]) /\ \A j \in i..k : ~IsTerminator(t[j])}

\* the positions where a maximal run of word characters starts
WordStarts(t) ==
  {i \in 1..Len(t) : IsWordChar(t[i]) /\ (i = 1 \/ ~IsWordChar(t[i-1]))}

TwoSentences ==
  <<"T","h","i","s"," ","i","s"," ","a"," ","t","e","s","t","."," ","T","h","i","s"," ","i","s"," ","a","n","o","t","h","e","r"," ","t","e","s","t","!">>

\* C7: sentence_count is the number of fragments between maximal runs of
\* terminators that are not blank, word_count the number of maximal runs of word
\* characters; "This is a test. This is another test!" has 2 sentences, 8 words
C7_SentenceAndWordCount ==
  Analyzed =>
    /\ analysis.sentence_count = Cardinality(SentenceStarts(text))
    /\ analysis.word_count = Cardinality(WordStarts(text))
    /\ text = TwoSentences => analysis.sentence_count = 2 /\ analysis.word_count = 8

\* the analysis of the example text
C7_Witness ==
  /\ Analyzed
  /\ text = TwoSentences
  /\ analysis.sentence_count = 2
  /\ analysis.word_count = 8

(***************************************************************************)
(* Properties of optimize_text.                                            *)
(***************************************************************************)
Optimized == called = "optimize_text"

OfType(type) == {i \in 1..Len(suggestions) : suggestions[i].suggestion_type = type}

BallWasThrown ==
  <<"T","h","e"," ","b","a","l","l"," ","w","a","s"," ","t","h","r","o","w","n">>

BallWasKicked ==
  <<"T","h","e"," ","b","a","l","l"," ","w","a","s"," ","k","i","c","k","e","d">>

AuxiliaryWords == {<<"w","a","s">>, <<"w","e","r","e">>, <<"b","e","e","n">>, <<"b","e","i","n","g">>}

\* the characters s..e-1 of t are an auxiliary at a word boundary, whitespace,
\* and a whole word of at least three characters that ends in "ed"
IsPassivePhrase(t, s, e) ==
  \E aux \in AuxiliaryWords : \E q \in s + Len(aux) + 1 .. e - 3 :
    /\ s = 1 \/ ~IsWordChar(t[s-1])
    /\ SubSeq(t, s, s + Len(aux) - 1) = aux
    /\ \A k \in s + Len(aux) .. q - 1 : IsSpace(t[k])
    /\ \A k \in q .. e - 1 : IsWordChar(t[k])
    /\ t[e-2] = "e" /\ t[e-1] = "d"
    /\ e = Len(t) + 1 \/ ~IsWordChar(t[e])

PassivePhrases(t) ==
  {se \in (1..Len(t)) \X (1..Len(t)+1) : se[1] < se[2] /\ IsPassivePhrase(t, se[1], se[2])}

\* C3 as stated: "The ball was thrown" gets at least one passive_voice suggestion
C3_ThrownIsReported ==
  (Optimized /\ text = BallWasThrown) => OfType("passive_voice") # {}

\* C3 amended: the passive_voice suggestions are exactly the phrases made of was,
\* were, been or being at a word boundary, whitespace and a word ending in "ed",
\* each with the byte offsets of the phrase's start and end; so a text with such
\* a phrase gets at least one, "The ball was kicked" gets the one at 9..19, and
\* "The ball was thrown" gets none
C3_EdPhrasesReported ==
  Optimized =>
    /\ {<<suggestions[i].start_pos, suggestions[i].end_pos>> : i \in OfType("passive_voice")}
         = {<<ByteOffset(text, se[1]), ByteOffset(text, se[2])>> : se \in PassivePhrases(text)}
    /\ Cardinality(OfType("passive_voice")) = Cardinality(PassivePhrases(text))
    /\ text = BallWasKicked =>
         \E i \in OfType("passive_voice") : suggestions[i].start_pos = 9 /\ suggestions[i].end_pos = 19
    /\ text = BallWasThrown => OfType("passive_voice") = {}

\* a passive phrase that starts after a two-byte character and is reported
C3_Witness ==
  /\ Optimized
  /\ \E se \in PassivePhrases(text) :
       /\ ByteOffset(text, se[1]) > se[1] - 1
       /\ \E i \in OfType("passive_voice") :
            /\ suggestions[i].start_pos = ByteOffset(text, se[1])
            /\ suggestions[i].end_pos = ByteOffset(text, se[2])

\* the number of '.' before position k: the index of the fragment k lies in
DotsBefore(t, k) == Cardinality({j \in 1..k-1 : t[j] = "."})

\* the number of words of the fragment at index i of the text split on '.'
WordsOfFragment(t, i) == Cardinality({k \in WordStarts(t) : DotsBefore(t, k) = i})

FragmentIndexes(t) == 0 .. DotsBefore(t, Len(t) + 1)

\* C8: the fragment at index i of the text split on '.' gets a sentence_length
\* suggestion iff it has more than 25 words; the suggestion has priority medium,
\* no replacement, start_pos = i*50 and end_pos = (i+1)*50
C8_LongSentences ==
  Optimized =>
    /\ \A i \in FragmentIndexes(text) :
         (WordsOfFragment(text, i) > 25) <=>
           (\E j \in OfType("sentence_length") : suggestions[j].start_pos = i * 50)
    /\ \A j \in OfType("sentence_length") :
         /\ suggestions[j].priority = "medium"
         /\ suggestions[j].suggested_replacement = "None"
         /\ suggestions[j].end_pos = suggestions[j].start_pos + 50
         /\ \E i \in FragmentIndexes(text) : suggestions[j].start_pos = i * 50
    /\ Cardinality(OfType("sentence_length"))
         = Cardinality({i \in FragmentIndexes(text) : WordsOfFragment(text, i) > 25})

\* a first fragment of exactly 25 words, not reported, then a reported one
C8_Witness ==
  /\ Optimized
  /\ WordsOfFragment(text, 0) = 25
  /\ \E j \in OfType("sentence_length") : suggestions[j].start_pos = 50 /\ suggestions[j].end_pos = 100
  /\ \A j \in OfType("sentence_length") : suggestions[j].start_pos # 0

TypeRank(type) ==
  CASE type = "sentence_length" -> 1
    [] type = "passive_voice" -> 2
    [] type = "adverb_usage" -> 3

\* C9: the sentence_length suggestions come first, then the passive_voice ones,
\* then the adverb_usage ones, each group by increasing start_pos; the empty
\* text gets the empty list
C9_GroupedAndOrdered ==
  Optimized =>
    /\ \A i, j \in 1..Len(suggestions) :
         i < j =>
           /\ TypeRank(suggestions[i].suggestion_type) <= TypeRank(suggestions[j].suggestion_type)
           /\ suggestions[i].suggestion_type = suggestions[j].suggestion_type =>
                suggestions[i].start_pos < suggestions[j].start_pos
    /\ text = <<>> => suggestions = <<>>

\* a result with two suggestions of each of the three types
C9_Witness ==
  /\ Optimized
  /\ Cardinality(OfType("sentence_length")) = 2
  /\ Cardinality(OfType("passive_voice")) = 2
  /\ Cardinality(OfType("adverb_usage")) = 2

====
